---- MODULE Spec2Model ----
(***************************************************************************)
(* A model of the connection close lifecycle of gws (conn.go) and of the   *)
(* mask codec (internal.MaskByByte).                                       *)
(*                                                                         *)
(* One connection is shared by the read loop (Listen) and by a number of   *)
(* caller goroutines that run SetDeadline / SetReadDeadline /              *)
(* SetWriteDeadline or enter emitError / emitClose from another internal   *)
(* path.  Every statement that touches the shared state (the closed flag,  *)
(* the socket, the handler) is one step; the computation on locals that    *)
(* precedes the compare-and-swap is part of the step that enters the call. *)
(***************************************************************************)
EXTENDS Integers, Sequences, FiniteSets, TLC

(* ------------------------------ bounds -------------------------------- *)

\* number of caller goroutines beside the read loop
NumCallers == 2

\* longest reason text of an inbound close frame
MaxReasonLen == 2

\* longest buffer handed to MaskByByte
MaxBufLen == 6

\* applications of MaskByByte to one buffer
MaxPasses == 2

\* longest error message, in bytes, handed to emitError
MaxMessageLen == 130

(* --------------------------- status codes ------------------------------ *)

\* internal.CloseNormalClosure
CloseNormalClosure == 1000

\* internal.CloseProtocolError
CloseProtocolError == 1002

\* internal.CloseUnsupportedData
CloseUnsupportedData == 1007

\* internal.ThresholdV1, the largest payload of a control frame
ThresholdV1 == 125

(* ------------------------------ errors --------------------------------- *)

\* a nil error
NilErr == [kind |-> "nil", code |-> 0, err |-> "none"]

\* an internal.StatusCode used as an error
StatusCodeErr(c) == [kind |-> "StatusCode", code |-> c, err |-> "none"]

\* an *internal.Error{Code: c, Err: e}
InternalErr(c, e) == [kind |-> "Error", code |-> c, err |-> e]

\* any other error value, identified by its name
OtherErr(e) == [kind |-> "other", code |-> 0, err |-> e]

(* ------------------------------ state ---------------------------------- *)

VARIABLES
    closed,        \* Conn.closed
    checkUtf8,     \* Conn.config.CheckUtf8Enabled
    sockClosed,    \* whether Close was called on Conn.conn
    opened,        \* number of handler.OnOpen invocations
    frames,        \* the doWrite calls made, in order
    events,        \* the OnError / OnClose invocations made, in order
    pc,            \* position of every goroutine
    call,          \* locals of the call every goroutine is in
    cancelled,     \* whether the caller's cancellation signal was raised
    content,       \* the buffer MaskByByte works on
    key,           \* the mask key
    orig,          \* the buffer as first handed to MaskByByte
    passes         \* applications of MaskByByte so far

vars == <<closed, checkUtf8, sockClosed, opened, frames, events, pc, call, cancelled,
          content, key, orig, passes>>

connVars == <<closed, checkUtf8, sockClosed, opened, frames, events, pc, call>>

maskVars == <<content, key, orig, passes>>

Listener == 0

Callers == 1..NumCallers

Procs == {Listener} \cup Callers

NoCall ==
    [fn |-> "none", via |-> "none", err |-> NilErr, payload |-> <<>>,
     responseCode |-> 0, responseErr |-> NilErr, realCode |-> 0,
     buf |-> <<>>, won |-> FALSE, ret |-> NilErr, content |-> <<>>]

(* ------------------------- emitError, locals ---------------------------- *)

\* mutant of EmitErrorResponse: a StatusCode is answered with NormalClosure
EmitErrorResponseNormal(err) ==
    CASE err.kind = "Error" ->
           [responseCode |-> err.code, responseErr |-> OtherErr(err.err)]
      [] err.kind = "StatusCode" ->
           [responseCode |-> CloseNormalClosure, responseErr |-> StatusCodeErr(CloseNormalClosure)]
      [] OTHER ->
           [responseCode |-> CloseNormalClosure, responseErr |-> err]

\* the type switch of emitError: the code to send and the error to report
EmitErrorResponse(err) ==
    CASE err.kind = "StatusCode" ->
           [responseCode |-> err.code, responseErr |-> StatusCodeErr(CloseNormalClosure)]
      [] err.kind = "Error" ->
           [responseCode |-> err.code, responseErr |-> OtherErr(err.err)]
      [] OTHER ->
           [responseCode |-> CloseNormalClosure, responseErr |-> err]

\* the length of the message of the error named e: an error made for a
\* length case is named by its length, every other message has 7 bytes
MessageLen(e) ==
    IF \E n \in 0..MaxMessageLen : e = ToString(n)
    THEN CHOOSE n \in 0..MaxMessageLen : e = ToString(n)
    ELSE 7

\* a message of n bytes; its bytes differ by position and by length
MessageBytes(n) == [i \in 1..n |-> (7 * i + n) % 256]

\* err.Error() as bytes: a StatusCode's description, and for *internal.Error
\* and any other error the message of the (wrapped) error
ErrorText(err) ==
    IF err.kind = "StatusCode"
    THEN MessageBytes(MessageLen("status"))
    ELSE MessageBytes(MessageLen(err.err))

\* StatusCode.Bytes(): the code as two big-endian bytes, nothing for code 0
StatusCodeBytes(c) ==
    IF c = 0 THEN <<>> ELSE <<(c \div 256) % 256, c % 256>>

\* mutant of EmitErrorContent: only the error text is cut to the threshold
EmitErrorContentTextCut(responseCode, err) ==
    LET text == ErrorText(err)
    IN  StatusCodeBytes(responseCode) \o
        (IF Len(text) > ThresholdV1 THEN SubSeq(text, 1, ThresholdV1) ELSE text)

\* lines 104-108: the payload of emitError's close frame
EmitErrorContent(responseCode, err) ==
    LET appended == StatusCodeBytes(responseCode) \o ErrorText(err)
    IN  IF Len(appended) > ThresholdV1
        THEN SubSeq(appended, 1, ThresholdV1)
        ELSE appended

(* ------------------------- emitClose, locals ---------------------------- *)

\* mutant of BigEndianUint16: the two bytes read in little-endian order
LittleEndianUint16(b0, b1) == (b1 * 256 + b0) % 65536

\* binary.BigEndian.Uint16 of two bytes
BigEndianUint16(b0, b1) == (b0 * 256 + b1) % 65536

\* s without its first n elements (bytes.Buffer.Read into a 2-byte array)
Drop(s, n) == SubSeq(s, n + 1, Len(s))

\* whether b is a UTF-8 continuation byte
IsCont(b) == 128 <= b /\ b <= 191

RECURSIVE Utf8Valid(_)
\* unicode/utf8.Valid
Utf8Valid(s) ==
    IF s = <<>> THEN TRUE
    ELSE LET b0 == s[1]
             n  == Len(s)
         IN  IF b0 < 128 THEN Utf8Valid(Drop(s, 1))
             ELSE IF 194 <= b0 /\ b0 <= 223
                  THEN n >= 2 /\ IsCont(s[2]) /\ Utf8Valid(Drop(s, 2))
             ELSE IF 224 <= b0 /\ b0 <= 239
                  THEN /\ n >= 3
                       /\ IsCont(s[2]) /\ IsCont(s[3])
                       /\ (b0 = 224 => s[2] >= 160)
                       /\ (b0 = 237 => s[2] <= 159)
                       /\ Utf8Valid(Drop(s, 3))
             ELSE IF 240 <= b0 /\ b0 <= 244
                  THEN /\ n >= 4
                       /\ IsCont(s[2]) /\ IsCont(s[3]) /\ IsCont(s[4])
                       /\ (b0 = 240 => s[2] >= 144)
                       /\ (b0 = 244 => s[2] <= 143)
                       /\ Utf8Valid(Drop(s, 4))
             ELSE FALSE

\* isTextValid: text and close payloads must be UTF-8
isTextValid(opcode, p) ==
    IF opcode \in {"Text", "Close"} THEN Utf8Valid(p) ELSE TRUE

\* mutant of CloseCodeRange: the upper limit tested with > instead of >=
CloseCodeRangeOffByOne(realCode) ==
    IF realCode \in {1004, 1005, 1006, 1014, 1015} THEN CloseProtocolError
    ELSE IF realCode < 1000 \/ realCode > 5000 \/ (realCode >= 1016 /\ realCode < 3000)
         THEN CloseProtocolError
    ELSE IF realCode < 1016 THEN CloseNormalClosure
    ELSE realCode

\* mutant of CloseCodeRange: every valid code echoed, the 1000..1015 branch missing
CloseCodeRangeEchoAll(realCode) ==
    IF realCode \in {1004, 1005, 1006, 1014, 1015} THEN CloseProtocolError
    ELSE IF realCode < 1000 \/ realCode >= 5000 \/ (realCode >= 1016 /\ realCode < 3000)
         THEN CloseProtocolError
    ELSE realCode

\* mutant of CloseCodeRange: the private range 4000..4999 refused
CloseCodeRangeNoPrivate(realCode) ==
    IF realCode \in {1004, 1005, 1006, 1014, 1015} THEN CloseProtocolError
    ELSE IF realCode < 1000 \/ realCode >= 4000 \/ (realCode >= 1016 /\ realCode < 3000)
         THEN CloseProtocolError
    ELSE IF realCode < 1016 THEN CloseNormalClosure
    ELSE realCode

\* the switch on realCode of emitClose
CloseCodeRange(realCode) ==
    IF realCode \in {1004, 1005, 1006, 1014, 1015} THEN CloseProtocolError
    ELSE IF realCode < 1000 \/ realCode >= 5000 \/ (realCode >= 1016 /\ realCode < 3000)
         THEN CloseProtocolError
    ELSE IF realCode < 1016 THEN CloseNormalClosure
    ELSE realCode

\* mutant of Utf8Override: a protocol error found by the range rules is kept
Utf8OverrideKeepsError(utf8Enabled, rest, responseCode) ==
    IF utf8Enabled /\ ~isTextValid("Close", rest) /\ responseCode # CloseProtocolError
    THEN CloseUnsupportedData
    ELSE responseCode

\* the UTF-8 override of emitClose, on the code the range rules gave
Utf8Override(utf8Enabled, rest, responseCode) ==
    IF utf8Enabled /\ ~isTextValid("Close", rest)
    THEN CloseUnsupportedData
    ELSE responseCode

\* mutant of CloseCase0: both locals left at their initial NormalClosure
CloseCase0Defaults(payload) ==
    [responseCode |-> CloseNormalClosure, realCode |-> CloseNormalClosure, buf |-> payload]

\* case 0 of emitClose
CloseCase0(payload) ==
    [responseCode |-> 0, realCode |-> 0, buf |-> payload]

\* mutant of CloseCase1: buf.Reset() missing
CloseCase1NoReset(payload) ==
    [responseCode |-> CloseProtocolError, realCode |-> payload[1] % 65536, buf |-> payload]

\* case 1 of emitClose
CloseCase1(payload) ==
    [responseCode |-> CloseProtocolError, realCode |-> payload[1] % 65536, buf |-> <<>>]

\* the default case of emitClose
CloseCaseDefault(payload, utf8Enabled) ==
    LET realCode == BigEndianUint16(payload[1], payload[2])
        rest     == Drop(payload, 2)
    IN  [responseCode |-> Utf8Override(utf8Enabled, rest, CloseCodeRange(realCode)),
         realCode     |-> realCode,
         buf          |-> rest]

\* the switch on buf.Len() of emitClose
EmitCloseResponse(payload, utf8Enabled) ==
    CASE Len(payload) = 0 -> CloseCase0(payload)
      [] Len(payload) = 1 -> CloseCase1(payload)
      [] OTHER            -> CloseCaseDefault(payload, utf8Enabled)

(* ------------------------------ the wire -------------------------------- *)

\* mutant of CompareAndSwapClosed: a plain store, every caller told it swapped
StoreClosed(cur) == [swapped |-> TRUE, val |-> 1]

\* mutant of CompareAndSwapClosed: the flag flipped instead of set
FlipClosed(cur) == [swapped |-> cur = 0, val |-> 1 - cur]

\* atomic.CompareAndSwapUint32(&c.closed, 0, 1) on the value cur
CompareAndSwapClosed(cur) ==
    IF cur = 0 THEN [swapped |-> TRUE, val |-> 1]
    ELSE [swapped |-> FALSE, val |-> cur]

\* a doWrite(OpcodeCloseConnection, payload) call, with the status code the
\* payload was built from and the error whose text follows it (NilErr: none)
CloseFrame(code, err, payload) ==
    [opcode |-> "Close", code |-> code, text |-> err, payload |-> payload]

\* handler.OnError(c, err)
OnError(err) ==
    [cb |-> "OnError", err |-> err, code |-> 0, reason |-> <<>>]

\* handler.OnClose(c, code, reason)
OnClose(code, reason) ==
    [cb |-> "OnClose", err |-> NilErr, code |-> code, reason |-> reason]

(* ------------------------------ inputs ---------------------------------- *)

\* the two payload bytes of a status code, big-endian
CodeBytes(c) == <<c \div 256, c % 256>>

\* status codes a peer may send: every boundary of the range rules
PeerCodes ==
    {0, 999, 1000, 1003, 1004, 1005, 1006, 1007, 1009, 1013, 1014, 1015,
     1016, 2999, 3000, 4000, 4999, 5000, 65535}

\* bytes of a reason text: 'A' and the two bytes of U+00E9, each invalid alone
ReasonBytes == {65, 195, 169}

\* the byte sequences over S of length at most n
SeqsUpTo(S, n) == UNION {[1..k -> S] : k \in 0..n}

\* the close payloads a peer may send
ClosePayloads ==
    {<<>>} \cup {<<b>> : b \in {1, 3, 255}}
           \cup {CodeBytes(c) \o r : c \in PeerCodes, r \in SeqsUpTo(ReasonBytes, MaxReasonLen)}

\* the close payloads of the concurrent specification
FewPayloads == {<<>>, CodeBytes(3000) \o <<65>>}

\* the errors an internal path hands to emitError
CallerErrs == {InternalErr(1009, "too big")}

\* the results of net.Conn.SetDeadline and its two siblings
DeadlineResults == {NilErr, OtherErr("timeout")}

\* the errors readMessage returns by itself
ReadErrs == {OtherErr("EOF"), InternalErr(CloseProtocolError, "bad opcode")}

\* errors handed to emitError: one of every kind, with an empty message and
\* messages of every length around the threshold, up to MaxMessageLen
ErrorInputs ==
    {OtherErr(ToString(n)) : n \in {0} \cup (ThresholdV1 - 5)..MaxMessageLen} \cup
    {StatusCodeErr(c) : c \in {CloseNormalClosure, CloseProtocolError, 1009}} \cup
    {InternalErr(1009, ToString(MaxMessageLen)),
     InternalErr(CloseProtocolError, "bad opcode"),
     InternalErr(CloseNormalClosure, "EOF")}

(* ------------------------------ emitError ------------------------------- *)

\* mutant of EmitErrorReturn: Listen goes on reading after emitError
EmitErrorReturnRetry(p, via, err) ==
    IF via = "direct"
    THEN /\ pc' = [pc EXCEPT ![p] = "idle"]
         /\ call' = [call EXCEPT ![p] = NoCall]
    ELSE IF via = "Listen"
    THEN /\ pc' = [pc EXCEPT ![p] = "Listen.readMessage"]
         /\ call' = [call EXCEPT ![p] = NoCall]
    ELSE /\ pc' = [pc EXCEPT ![p] = "SetDeadline.ret"]
         /\ call' = [call EXCEPT ![p] = [NoCall EXCEPT !.via = via, !.ret = err]]

\* where goroutine p continues once emitError(err), entered from `via`, has returned
EmitErrorReturn(p, via, err) ==
    IF via = "direct"
    THEN /\ pc' = [pc EXCEPT ![p] = "idle"]
         /\ call' = [call EXCEPT ![p] = NoCall]
    ELSE IF via = "Listen"
    THEN /\ pc' = [pc EXCEPT ![p] = "Listen.Close"]
         /\ call' = [call EXCEPT ![p] = NoCall]
    ELSE /\ pc' = [pc EXCEPT ![p] = "SetDeadline.ret"]
         /\ call' = [call EXCEPT ![p] = [NoCall EXCEPT !.via = via, !.ret = err]]

\* mutant of EmitErrorEnter: the nil check is missing
EmitErrorEnterNoNilCheck(p, via, err) ==
    LET r == EmitErrorResponse(err)
    IN  /\ pc' = [pc EXCEPT ![p] = "emitError.cas"]
        /\ call' = [call EXCEPT ![p] =
                      [NoCall EXCEPT !.fn = "emitError", !.via = via, !.err = err,
                                     !.responseCode = r.responseCode,
                                     !.responseErr = r.responseErr,
                                     !.content =
                                         EmitErrorContent(r.responseCode, err)]]

\* entering emitError(err) from `via`: the nil check and the locals up to the CAS
EmitErrorEnter(p, via, err) ==
    LET r == EmitErrorResponse(err)
    IN  IF err = NilErr
        THEN EmitErrorReturn(p, via, err)
        ELSE /\ pc' = [pc EXCEPT ![p] = "emitError.cas"]
             /\ call' = [call EXCEPT ![p] =
                           [NoCall EXCEPT !.fn = "emitError", !.via = via, !.err = err,
                                          !.responseCode = r.responseCode,
                                          !.responseErr = r.responseErr,
                                          !.content =
                                              EmitErrorContent(r.responseCode, err)]]

\* an internal path (a failed write, ...) calls emitError
CallEmitError(p, err) ==
    /\ pc[p] = "idle"
    /\ EmitErrorEnter(p, "direct", err)
    /\ UNCHANGED <<closed, checkUtf8, sockClosed, opened, frames, events, cancelled, maskVars>>

\* line 109: the compare-and-swap of emitError; a call that loses it returns
EmitErrorCAS(p) ==
    /\ pc[p] = "emitError.cas"
    /\ LET r == CompareAndSwapClosed(closed)
       IN  /\ closed' = r.val
           /\ IF r.swapped
              THEN /\ pc' = [pc EXCEPT ![p] = "emitError.doWrite"]
                   /\ call' = [call EXCEPT ![p].won = TRUE]
              ELSE EmitErrorReturn(p, call[p].via, call[p].err)
    /\ UNCHANGED <<checkUtf8, sockClosed, opened, frames, events, cancelled, maskVars>>

\* line 110: the close frame of emitError
EmitErrorWrite(p) ==
    /\ pc[p] = "emitError.doWrite"
    /\ frames' = Append(frames, CloseFrame(call[p].responseCode, call[p].err, call[p].content))
    /\ pc' = [pc EXCEPT ![p] = "emitError.OnError"]
    /\ UNCHANGED <<closed, checkUtf8, sockClosed, opened, events, call, cancelled, maskVars>>

\* line 111: the callback of emitError, after which the call returns
EmitErrorOnError(p) ==
    /\ pc[p] = "emitError.OnError"
    /\ events' = Append(events, OnError(call[p].responseErr))
    /\ EmitErrorReturn(p, call[p].via, call[p].err)
    /\ UNCHANGED <<closed, checkUtf8, sockClosed, opened, frames, cancelled, maskVars>>

(* ------------------------------ emitClose ------------------------------- *)

\* entering emitClose(buf) from `via`: the switch on the payload, up to the CAS
EmitCloseEnter(p, via, payload) ==
    LET r == EmitCloseResponse(payload, checkUtf8)
    IN  /\ pc' = [pc EXCEPT ![p] = "emitClose.cas"]
        /\ call' = [call EXCEPT ![p] =
                      [NoCall EXCEPT !.fn = "emitClose", !.via = via, !.payload = payload,
                                     !.responseCode = r.responseCode,
                                     !.realCode = r.realCode, !.buf = r.buf]]

\* a close frame handed to emitClose outside Listen
CallEmitClose(p, payload) ==
    /\ pc[p] = "idle"
    /\ EmitCloseEnter(p, "direct", payload)
    /\ UNCHANGED <<closed, checkUtf8, sockClosed, opened, frames, events, cancelled, maskVars>>

\* line 146: the compare-and-swap of emitClose
EmitCloseCAS(p) ==
    /\ pc[p] = "emitClose.cas"
    /\ LET r == CompareAndSwapClosed(closed)
       IN  /\ closed' = r.val
           /\ call' = [call EXCEPT ![p].won = r.swapped]
           /\ pc' = [pc EXCEPT ![p] = IF r.swapped THEN "emitClose.doWrite"
                                      ELSE "emitClose.ret"]
    /\ UNCHANGED <<checkUtf8, sockClosed, opened, frames, events, cancelled, maskVars>>

\* line 147: the close frame of emitClose
EmitCloseWrite(p) ==
    /\ pc[p] = "emitClose.doWrite"
    /\ frames' = Append(frames, CloseFrame(call[p].responseCode, NilErr,
                                          StatusCodeBytes(call[p].responseCode)))
    /\ pc' = [pc EXCEPT ![p] = "emitClose.OnClose"]
    /\ UNCHANGED <<closed, checkUtf8, sockClosed, opened, events, call, cancelled, maskVars>>

\* line 148: the callback of emitClose
EmitCloseOnClose(p) ==
    /\ pc[p] = "emitClose.OnClose"
    /\ events' = Append(events, OnClose(call[p].realCode, call[p].buf))
    /\ pc' = [pc EXCEPT ![p] = "emitClose.ret"]
    /\ UNCHANGED <<closed, checkUtf8, sockClosed, opened, frames, call, cancelled, maskVars>>

\* mutant of EmitCloseResult: emitClose returns nil
EmitCloseResultNil == NilErr

\* line 150: the error emitClose returns
EmitCloseResult == StatusCodeErr(CloseNormalClosure)

\* lines 80-83 of Listen on the error err of readMessage: emitError and return
\* when it is not nil, the next round of the loop when it is
ListenAfterRead(p, err) ==
    IF err # NilErr
    THEN EmitErrorEnter(p, "Listen", err)
    ELSE /\ pc' = [pc EXCEPT ![p] = "Listen.readMessage"]
         /\ call' = [call EXCEPT ![p] = NoCall]

\* line 150: emitClose returns; within Listen, readMessage returns that error
\* to the loop
EmitCloseReturn(p) ==
    /\ pc[p] = "emitClose.ret"
    /\ IF call[p].via = "Listen"
       THEN ListenAfterRead(p, EmitCloseResult)
       ELSE /\ pc' = [pc EXCEPT ![p] = "idle"]
            /\ call' = [call EXCEPT ![p] = NoCall]
    /\ UNCHANGED <<closed, checkUtf8, sockClosed, opened, frames, events, cancelled, maskVars>>

(* ------------------------------ deadlines ------------------------------- *)

\* SetDeadline: the socket call, with result res, and emitError on that result
SetDeadline(p, res) ==
    /\ pc[p] = "idle"
    /\ EmitErrorEnter(p, "SetDeadline", res)
    /\ UNCHANGED <<closed, checkUtf8, sockClosed, opened, frames, events, cancelled, maskVars>>

\* SetReadDeadline: the socket call, with result res, and emitError on that result
SetReadDeadline(p, res) ==
    /\ pc[p] = "idle"
    /\ EmitErrorEnter(p, "SetReadDeadline", res)
    /\ UNCHANGED <<closed, checkUtf8, sockClosed, opened, frames, events, cancelled, maskVars>>

\* SetWriteDeadline: the socket call, with result res, and emitError on that result
SetWriteDeadline(p, res) ==
    /\ pc[p] = "idle"
    /\ EmitErrorEnter(p, "SetWriteDeadline", res)
    /\ UNCHANGED <<closed, checkUtf8, sockClosed, opened, frames, events, cancelled, maskVars>>

\* the `return err` of the three setters
SetDeadlineReturn(p) ==
    /\ pc[p] = "SetDeadline.ret"
    /\ pc' = [pc EXCEPT ![p] = "idle"]
    /\ call' = [call EXCEPT ![p] = NoCall]
    /\ UNCHANGED <<closed, checkUtf8, sockClosed, opened, frames, events, cancelled, maskVars>>

(* -------------------------------- Listen -------------------------------- *)

\* line 78: handler.OnOpen
ListenOnOpen ==
    /\ pc[Listener] = "Listen.OnOpen"
    /\ opened' = opened + 1
    /\ pc' = [pc EXCEPT ![Listener] = "Listen.readMessage"]
    /\ UNCHANGED <<closed, checkUtf8, sockClosed, frames, events, call, cancelled, maskVars>>

\* line 80: readMessage handles a data, ping or pong frame and returns nil
ListenReadOk ==
    /\ pc[Listener] = "Listen.readMessage"
    /\ UNCHANGED vars

\* lines 80-81: readMessage fails by itself and Listen calls emitError
ListenReadError(err) ==
    /\ pc[Listener] = "Listen.readMessage"
    /\ ListenAfterRead(Listener, err)
    /\ UNCHANGED <<closed, checkUtf8, sockClosed, opened, frames, events, cancelled, maskVars>>

\* line 80: readMessage reads a close frame and runs emitClose on its payload
ListenReadClose(payload) ==
    /\ pc[Listener] = "Listen.readMessage"
    /\ EmitCloseEnter(Listener, "Listen", payload)
    /\ UNCHANGED <<closed, checkUtf8, sockClosed, opened, frames, events, cancelled, maskVars>>

\* line 76: the deferred c.conn.Close()
ListenClose ==
    /\ pc[Listener] = "Listen.Close"
    /\ sockClosed' = TRUE
    /\ pc' = [pc EXCEPT ![Listener] = "Listen.done"]
    /\ UNCHANGED <<closed, checkUtf8, opened, frames, events, call, cancelled, maskVars>>

(* ----------------------------- cancellation ----------------------------- *)

\* the application raises its cancellation signal (a context's Done); no
\* field of Conn and no statement of Listen refers to it
Cancel ==
    /\ ~cancelled
    /\ cancelled' = TRUE
    /\ UNCHANGED <<connVars, maskVars>>

(* ------------------------------ MaskByByte ------------------------------ *)

\* mutant of Xor: the key byte added instead of xor-ed
AddByte(a, b) == (a + b) % 256

RECURSIVE Xor(_, _)
\* a ^ b on non-negative integers, bit by bit
Xor(a, b) ==
    IF a = 0 /\ b = 0 THEN 0
    ELSE (((a % 2) + (b % 2)) % 2) + 2 * Xor(a \div 2, b \div 2)

\* i & 3
And3(i) == i % 4

RECURSIVE MaskLoop(_, _, _, _)
\* the loop of MaskByByte from index i (0-based) to n
MaskLoop(buf, k, i, n) ==
    IF i < n
    THEN MaskLoop([buf EXCEPT ![i + 1] = Xor(buf[i + 1], k[And3(i) + 1])], k, i + 1, n)
    ELSE buf

\* MaskByByte(content, key): the buffer after the call
MaskByByte(buf, k) == MaskLoop(buf, k, 0, Len(buf))

\* bytes of a buffer to mask
BufBytes == {60, 255}

\* bytes of a mask key
KeyBytes == {0, 165, 255}

\* one call MaskByByte(content, key)
ApplyMask ==
    /\ passes < MaxPasses
    /\ content' = MaskByByte(content, key)
    /\ passes' = passes + 1
    /\ UNCHANGED <<key, orig, cancelled, connVars>>

(* --------------------------- specifications ----------------------------- *)

\* serveWebSocket: the connection as constructed
InitConn ==
    /\ closed = 0
    /\ checkUtf8 \in BOOLEAN
    /\ sockClosed = FALSE
    /\ opened = 0
    /\ frames = <<>>
    /\ events = <<>>
    /\ pc = [p \in Procs |-> IF p = Listener THEN "Listen.OnOpen" ELSE "idle"]
    /\ call = [p \in Procs |-> NoCall]
    /\ cancelled = FALSE

Init ==
    /\ InitConn
    /\ content = <<>>
    /\ key = <<0, 0, 0, 0>>
    /\ orig = <<>>
    /\ passes = 0

\* the steps inside emitError and emitClose of goroutine p
EmitSteps(p) ==
    \/ EmitErrorCAS(p)
    \/ EmitErrorWrite(p)
    \/ EmitErrorOnError(p)
    \/ EmitCloseCAS(p)
    \/ EmitCloseWrite(p)
    \/ EmitCloseOnClose(p)
    \/ EmitCloseReturn(p)

\* Listen and any number of concurrent closers on one connection
Next ==
    \/ ListenOnOpen
    \/ ListenReadOk
    \/ \E err \in ReadErrs : ListenReadError(err)
    \/ \E payload \in FewPayloads : ListenReadClose(payload)
    \/ ListenClose
    \/ \E p \in Callers, err \in CallerErrs : CallEmitError(p, err)
    \/ \E p \in Callers, payload \in FewPayloads : CallEmitClose(p, payload)
    \/ \E p \in Callers, res \in DeadlineResults : SetDeadline(p, res)
    \/ \E p \in Callers, res \in DeadlineResults : SetReadDeadline(p, res)
    \/ \E p \in Callers, res \in DeadlineResults : SetWriteDeadline(p, res)
    \/ \E p \in Callers : SetDeadlineReturn(p)
    \/ \E p \in Procs : EmitSteps(p)

Spec == Init /\ [][Next]_vars

\* Listen receiving any close payload, beside one goroutine setting deadlines
NextClose ==
    \/ ListenOnOpen
    \/ ListenReadOk
    \/ \E payload \in ClosePayloads : ListenReadClose(payload)
    \/ ListenClose
    \/ \E res \in DeadlineResults : SetDeadline(1, res)
    \/ SetDeadlineReturn(1)
    \/ \E p \in {Listener, 1} : EmitSteps(p)

SpecClose == Init /\ [][NextClose]_vars

\* SpecClose with the read loop's goroutine scheduled: once readMessage has a
\* frame, the steps of emitClose and emitError and the deferred Close are taken
FairClose ==
    /\ SpecClose
    /\ WF_vars(EmitSteps(Listener))
    /\ WF_vars(ListenClose)

\* Listen beside an application that may raise its cancellation signal and
\* set read deadlines
NextCancel ==
    \/ ListenOnOpen
    \/ ListenReadOk
    \/ \E err \in ReadErrs : ListenReadError(err)
    \/ \E payload \in FewPayloads : ListenReadClose(payload)
    \/ ListenClose
    \/ Cancel
    \/ \E res \in DeadlineResults : SetReadDeadline(1, res)
    \/ SetDeadlineReturn(1)
    \/ \E p \in {Listener, 1} : EmitSteps(p)

\* the read loop's goroutine is scheduled: every step of Listen that does not
\* wait for the peer is taken; what readMessage returns is up to the peer
FairCancel ==
    /\ Init
    /\ [][NextCancel]_vars
    /\ WF_vars(ListenOnOpen)
    /\ WF_vars(EmitSteps(Listener))
    /\ WF_vars(ListenClose)

\* emitError called with errors of every kind and length, beside Listen
NextError ==
    \/ \E err \in ErrorInputs : CallEmitError(1, err)
    \/ ListenOnOpen
    \/ ListenReadOk
    \/ \E err \in ReadErrs : ListenReadError(err)
    \/ ListenClose
    \/ \E p \in {Listener, 1} : EmitErrorCAS(p) \/ EmitErrorWrite(p) \/ EmitErrorOnError(p)

SpecError == Init /\ [][NextError]_vars

\* a buffer and a key handed to MaskByByte, on a connection as constructed
InitMask ==
    /\ InitConn
    /\ content \in SeqsUpTo(BufBytes, MaxBufLen)
    /\ key \in [1..4 -> KeyBytes]
    /\ orig = content
    /\ passes = 0

NextMask == ApplyMask

SpecMask == InitMask /\ [][NextMask]_vars

(* ------------------------------- claims --------------------------------- *)

\* goroutines between the CAS they won and their close frame
Writing == {p \in Procs : pc[p] \in {"emitError.doWrite", "emitClose.doWrite"}}

\* goroutines between the CAS they won and their callback
Reporting ==
    {p \in Procs : pc[p] \in {"emitError.doWrite", "emitError.OnError",
                              "emitClose.doWrite", "emitClose.OnClose"}}

\* every doWrite made is a close frame and every callback made is OnError or OnClose
CloseOnceInv ==
    /\ \A i \in 1..Len(frames) : frames[i].opcode = "Close"
    /\ \A i \in 1..Len(events) : events[i].cb \in {"OnError", "OnClose"}
    /\ closed = 0 => frames = <<>> /\ events = <<>> /\ Reporting = {}
    /\ closed = 1 => /\ Len(frames) + Cardinality(Writing) = 1
                     /\ Len(events) + Cardinality(Reporting) = 1
    /\ \A p \in Procs : pc[p] = "emitClose.ret" /\ ~call[p].won =>
                           closed = 1 /\ p \notin Reporting

\* a CAS step that finds the flag set writes nothing, calls nothing and returns
CloseOnceStep ==
    \A p \in Procs :
        (pc[p] \in {"emitError.cas", "emitClose.cas"} /\ closed = 1 /\ pc'[p] # pc[p]) =>
            /\ frames' = frames
            /\ events' = events
            /\ pc'[p] \in {"idle", "Listen.Close", "SetDeadline.ret", "emitClose.ret"}
            /\ ~call'[p].won

\* C1: under every interleaving of emitError (non-nil) and emitClose calls the
\* close frame is written exactly once and exactly one of OnClose / OnError is
\* invoked; a call that loses the compare-and-swap writes nothing and invokes
\* no callback.
C1_CloseOnce == []CloseOnceInv /\ [][CloseOnceStep]_vars

\* C1 witness: an emitClose call and a failing setter's emitError call have both
\* finished, the emitClose call lost the CAS, and there is one frame and one callback
C1_Witness ==
    /\ Len(frames) = 1 /\ Len(events) = 1
    /\ \E p, q \in Procs :
          /\ p # q
          /\ pc[p] = "emitClose.ret" /\ ~call[p].won
          /\ pc[q] = "SetDeadline.ret" /\ call[q].ret # NilErr

\* goroutine p is at the return of an emitClose call that won the CAS
ClosedBy(p) == pc[p] = "emitClose.ret" /\ call[p].won

\* the status code the peer sent to p, read from the payload as handed in
PeerCode(p) == call[p].payload[1] * 256 + call[p].payload[2]

\* the reason text the peer sent to p
PeerReason(p) == SubSeq(call[p].payload, 3, Len(call[p].payload))

\* the UTF-8 override applies to the payload handed to p
Overridden(p) == checkUtf8 /\ ~Utf8Valid(PeerReason(p))

\* C2 as stated: an empty close payload is answered with NormalClosure, and
\* OnClose receives code 0 and an empty reason.
C2_Original ==
    \A p \in Procs : ClosedBy(p) /\ Len(call[p].payload) = 0 =>
        /\ frames = <<CloseFrame(CloseNormalClosure, NilErr, StatusCodeBytes(CloseNormalClosure))>>
        /\ events = <<OnClose(0, <<>>)>>

\* C2 amended: an empty close payload is answered with a close frame built from
\* status code 0 (no status, not NormalClosure), and OnClose receives code 0 and
\* an empty reason.
C2_EmptyPayload ==
    \A p \in Procs : ClosedBy(p) /\ Len(call[p].payload) = 0 =>
        /\ frames = <<CloseFrame(0, NilErr, <<>>)>>
        /\ events = <<OnClose(0, <<>>)>>

\* C2 witness: an emitClose call on an empty payload won the CAS and has finished
C2_Witness ==
    \E p \in Procs : ClosedBy(p) /\ call[p].payload = <<>> /\ Len(events) = 1

\* C3: for a payload of length >= 2 without the UTF-8 override, the echoed code
\* is ProtocolError exactly when the peer's code is one of 1004, 1005, 1006,
\* 1014, 1015, or below 1000, or at least 5000, or in 1016..2999.
C3_ProtocolErrorRange ==
    \A p \in Procs : ClosedBy(p) /\ Len(call[p].payload) >= 2 /\ ~Overridden(p) =>
        /\ Len(frames) = 1
        /\ frames[1].code = CloseProtocolError <=>
              \/ PeerCode(p) \in {1004, 1005, 1006, 1014, 1015}
              \/ PeerCode(p) < 1000
              \/ PeerCode(p) >= 5000
              \/ (1016 <= PeerCode(p) /\ PeerCode(p) < 3000)

\* C3 witness: the peer's code 5000 was answered with ProtocolError
C3_Witness ==
    \E p \in Procs :
        /\ ClosedBy(p) /\ Len(call[p].payload) >= 2 /\ ~Overridden(p)
        /\ PeerCode(p) = 5000
        /\ Len(frames) = 1 /\ frames[1].code = CloseProtocolError

\* C4: for a payload of length >= 2 without the UTF-8 override, a code in
\* 1000..1015 other than 1004, 1005, 1006, 1014, 1015 is answered with
\* NormalClosure, and OnClose still receives the peer's code.
C4_NormalClosureRange ==
    \A p \in Procs :
        ( /\ ClosedBy(p) /\ Len(call[p].payload) >= 2 /\ ~Overridden(p)
          /\ PeerCode(p) \in (1000..1015) \ {1004, 1005, 1006, 1014, 1015} ) =>
        /\ Len(frames) = 1 /\ frames[1].code = CloseNormalClosure
        /\ Len(events) = 1 /\ events[1].cb = "OnClose" /\ events[1].code = PeerCode(p)

\* C4 witness: the peer's code 1009 was answered with 1000 and reported as 1009
C4_Witness ==
    \E p \in Procs :
        /\ ClosedBy(p) /\ Len(call[p].payload) >= 2 /\ ~Overridden(p)
        /\ PeerCode(p) = 1009
        /\ Len(frames) = 1 /\ frames[1].code = CloseNormalClosure
        /\ Len(events) = 1 /\ events[1].code = 1009

\* C5: for a payload of length >= 2 without the UTF-8 override, a code in
\* 3000..4999 is echoed unchanged.
C5_EchoRange ==
    \A p \in Procs :
        ( /\ ClosedBy(p) /\ Len(call[p].payload) >= 2 /\ ~Overridden(p)
          /\ 3000 <= PeerCode(p) /\ PeerCode(p) < 5000 ) =>
        Len(frames) = 1 /\ frames[1].code = PeerCode(p)

\* C5 witness: the peer's code 4999 was echoed
C5_Witness ==
    \E p \in Procs :
        /\ ClosedBy(p) /\ Len(call[p].payload) >= 2 /\ ~Overridden(p)
        /\ PeerCode(p) = 4999
        /\ Len(frames) = 1 /\ frames[1].code = 4999

\* C6: for a payload of length >= 2, with CheckUtf8Enabled and a reason that is
\* not valid UTF-8 the echoed code is UnsupportedData whatever the range rules
\* gave; with CheckUtf8Enabled off the echoed code is never UnsupportedData.
C6_Utf8Override ==
    \A p \in Procs : ClosedBy(p) /\ Len(call[p].payload) >= 2 =>
        /\ Len(frames) = 1
        /\ Overridden(p) => frames[1].code = CloseUnsupportedData
        /\ ~checkUtf8 => frames[1].code # CloseUnsupportedData

\* C6 witness: code 1004, which the range rules answer with ProtocolError, came
\* with an invalid reason and was answered with UnsupportedData
C6_Witness ==
    \E p \in Procs :
        /\ ClosedBy(p) /\ Len(call[p].payload) >= 2 /\ Overridden(p)
        /\ PeerCode(p) = 1004
        /\ Len(frames) = 1 /\ frames[1].code = CloseUnsupportedData

\* C7: a payload of exactly one byte is answered with ProtocolError, and OnClose
\* receives the value of that byte as code and an empty reason.
C7_OneBytePayload ==
    \A p \in Procs : ClosedBy(p) /\ Len(call[p].payload) = 1 =>
        /\ frames = <<CloseFrame(CloseProtocolError, NilErr, StatusCodeBytes(CloseProtocolError))>>
        /\ events = <<OnClose(call[p].payload[1], <<>>)>>

\* C7 witness: the one-byte payload 0x01 was handled
C7_Witness ==
    \E p \in Procs : ClosedBy(p) /\ call[p].payload = <<1>> /\ Len(events) = 1

\* C8: for a payload of length >= 2, OnClose receives the big-endian value of
\* the first two bytes as code and exactly the remaining bytes as reason,
\* whatever code is echoed.
C8_ReportedCodeAndReason ==
    \A p \in Procs : ClosedBy(p) /\ Len(call[p].payload) >= 2 =>
        events = <<OnClose(PeerCode(p), PeerReason(p))>>

\* C8 witness: code 1000 came with the invalid two-byte reason A9 C3, was
\* answered with UnsupportedData and reported with its own code and reason
C8_Witness ==
    \E p \in Procs :
        /\ ClosedBy(p) /\ call[p].payload = <<3, 232, 169, 195>>
        /\ Len(frames) = 1 /\ frames[1].code = CloseUnsupportedData
        /\ events = <<OnClose(1000, <<169, 195>>)>>

\* bit j of the byte b
Bit(b, j) == (b \div (2 ^ j)) % 2

\* buf is b with byte i (0-based) xor-ed with k[i mod 4], bit by bit
MaskedOnce(buf, b, k) ==
    /\ Len(buf) = Len(b)
    /\ \A i \in 1..Len(b) : \A j \in 0..7 :
          Bit(buf[i], j) = (Bit(b[i], j) + Bit(k[((i - 1) % 4) + 1], j)) % 2

\* C9: one MaskByByte call xors byte i with key[i mod 4] in place and keeps the
\* length; two calls with the same key restore the buffer, for every key and
\* every buffer, the empty one and lengths that are no multiple of 4 included.
C9_MaskSelfInverse ==
    /\ passes % 2 = 1 => MaskedOnce(content, orig, key)
    /\ passes % 2 = 0 => content = orig

\* C9 witness: a 5-byte buffer masked twice with a key of four different
\* effects, after which it holds its first contents again
C9_Witness ==
    /\ passes = 2
    /\ Len(orig) = 5
    /\ key = <<165, 0, 255, 165>>
    /\ content = orig

\* C10: the closed flag starts at 0, changes only from 0 to 1, and no step of
\* emitError, emitClose, the deadline setters or Listen sets it back to 0.
C10_ClosedOneShot ==
    /\ closed = 0
    /\ [](closed \in {0, 1})
    /\ [][closed' # closed => closed = 0 /\ closed' = 1]_vars

\* C10 witness: emitClose closed the connection; afterwards a failing setter ran
\* its emitError call and Listen closed the socket, and the flag is still 1
C10_Witness ==
    /\ closed = 1
    /\ sockClosed
    /\ events # <<>> /\ events[1].cb = "OnClose"
    /\ \E p \in Callers : pc[p] = "SetDeadline.ret" /\ call[p].ret # NilErr

\* the first callback was OnClose: in SpecClose only Listen runs emitClose, so
\* the read loop received a close frame on an open connection
ClosedByPeer == events # <<>> /\ events[1].cb = "OnClose"

\* where Listen is once emitClose has reported the closure
AfterOnClose == {"emitClose.ret", "emitError.cas", "Listen.Close", "Listen.done"}

\* after a close frame on an open connection: one OnClose and no other callback,
\* one frame, the loop left, and emitError entered with emitClose's error
ListenCloseInv ==
    ClosedByPeer =>
        /\ Len(events) = 1
        /\ Len(frames) = 1 /\ frames[1].text = NilErr
        /\ pc[Listener] \in AfterOnClose
        /\ pc[Listener] = "emitError.cas" =>
               call[Listener].err = StatusCodeErr(CloseNormalClosure)

\* emitClose's return enters emitError (its error is not nil), and that call
\* only returns to the deferred Close, with no frame and no callback
ListenCloseStep ==
    /\ pc[Listener] = "emitClose.ret" =>
           pc'[Listener] \in {"emitClose.ret", "emitError.cas"}
    /\ (ClosedByPeer /\ pc[Listener] = "emitError.cas") =>
           /\ frames' = frames
           /\ events' = events
           /\ pc'[Listener] \in {"emitError.cas", "Listen.Close"}

\* C11: when the read loop receives a close frame on an open connection,
\* emitClose runs and OnClose is invoked exactly once, OnError is not invoked,
\* emitClose returns a non-nil error, the emitError call Listen makes with it
\* writes no second frame and fires no callback, and the read loop ends.
C11_ListenClose ==
    /\ []ListenCloseInv
    /\ [][ListenCloseStep]_vars
    /\ (pc[Listener] = "emitClose.doWrite") ~> (pc[Listener] = "Listen.done")

\* C11 witness: Listen has returned after a close frame with code 3000, which
\* was echoed and reported by the one OnClose
C11_Witness ==
    /\ pc[Listener] = "Listen.done"
    /\ frames = <<CloseFrame(3000, NilErr, CodeBytes(3000))>>
    /\ events = <<OnClose(3000, <<65>>)>>

\* the positions of Listen from the call of emitError on
AfterReadError ==
    {"emitError.cas", "emitError.doWrite", "emitError.OnError", "Listen.Close", "Listen.done"}

\* OnOpen has run once as soon as Listen is past it, and a returned Listen
\* leaves the flag set and the socket closed
ListenOnceInv ==
    /\ opened = IF pc[Listener] = "Listen.OnOpen" THEN 0 ELSE 1
    /\ pc[Listener] = "Listen.done" => closed = 1 /\ sockClosed
    /\ sockClosed => pc[Listener] = "Listen.done"

\* readMessage is only ever entered from OnOpen, never again after an error
ListenOnceStep ==
    /\ (pc'[Listener] = "Listen.readMessage" /\ pc[Listener] # "Listen.readMessage") =>
           pc[Listener] = "Listen.OnOpen" /\ opened' = 1
    /\ pc[Listener] \in AfterReadError =>
           pc'[Listener] \in AfterReadError

\* C12: Listen calls OnOpen exactly once, before the first read; after the
\* first error of readMessage it reads no more; and when Listen has returned
\* the closed flag is 1 and Close was called on the socket.
C12_ListenOnce == []ListenOnceInv /\ [][ListenOnceStep]_vars

\* C12 witness: readMessage failed with EOF on an open connection, emitError
\* reported it, and Listen has returned
C12_Witness ==
    /\ pc[Listener] = "Listen.done"
    /\ opened = 1 /\ closed = 1 /\ sockClosed
    /\ events = <<OnError(OtherErr("EOF"))>>

\* C13: once the cancellation signal is raised while the read loop runs, the
\* loop eventually exits and the close sequence has run.
C13_CancelExits ==
    (cancelled /\ pc[Listener] = "Listen.readMessage") ~>
        (pc[Listener] = "Listen.done" /\ closed = 1)

\* the close frames written by emitError: those built from an error
ErrorFrames == {i \in 1..Len(frames) : frames[i].text # NilErr}

\* the bytes emitError appends before cutting: the code of the frame, then
\* the text of the error
Appended(f) == StatusCodeBytes(f.code) \o ErrorText(f.text)

\* C14: every close frame written by emitError has a payload of at most 125
\* bytes, namely the first 125 bytes of the status-code bytes followed by the
\* error text, whatever the length of the message.
C14_ErrorPayload ==
    \A i \in ErrorFrames :
        LET f == frames[i]
        IN  /\ Len(f.payload) <= 125
            /\ Len(f.payload) = IF Len(Appended(f)) < 125 THEN Len(Appended(f)) ELSE 125
            /\ \A j \in 1..Len(f.payload) : f.payload[j] = Appended(f)[j]

\* a message of 130 bytes was cut: the frame carries 2 + 123 bytes
C14_Witness ==
    /\ Len(frames) = 1
    /\ frames[1].text = OtherErr("130")
    /\ Len(frames[1].payload) = 125
    /\ frames[1].payload[125] = MessageBytes(130)[123]

\* the status code the type switch of emitError chooses for an error
CodeOfKind(err) ==
    CASE err.kind = "StatusCode" -> err.code
      [] err.kind = "Error" -> err.code
      [] OTHER -> 1000

\* C15: the status code at the start of emitError's close frame is the error
\* itself for an internal.StatusCode, the Code field for an *internal.Error,
\* and NormalClosure (1000) for every other non-nil error.
C15_CodeByKind ==
    /\ \A i \in ErrorFrames :
           /\ frames[i].code = CodeOfKind(frames[i].text)
           /\ SubSeq(frames[i].payload, 1, 2) = CodeBytes(CodeOfKind(frames[i].text))
    /\ \A p \in Procs :
           pc[p] \in {"emitError.cas", "emitError.doWrite", "emitError.OnError"} =>
               call[p].responseCode = CodeOfKind(call[p].err)

\* a StatusCode other than NormalClosure went out as itself
C15_Witness ==
    /\ Len(frames) = 1
    /\ frames[1].text = StatusCodeErr(CloseProtocolError)
    /\ frames[1].code = 1002
    /\ SubSeq(frames[1].payload, 1, 2) = <<3, 234>>

\* the error value that identifies the error passed to emitError
Identifies(err) == IF err.kind = "Error" THEN OtherErr(err.err) ELSE err

\* C16: whenever emitError wins the close transition, the error handed to
\* OnError identifies the error passed in: the wrapped Err of an
\* *internal.Error, the passed error itself for every other kind.
C16_Original ==
    [][\A p \in Procs :
           (pc[p] = "emitError.OnError" /\ events' # events) =>
               events' = Append(events, OnError(Identifies(call[p].err)))]_vars

\* the three deadline setters, as the origin of a call of emitError
Setters == {"SetDeadline", "SetReadDeadline", "SetWriteDeadline"}

\* goroutine p is inside the emitError called by a setter
InSetterEmitError(p) ==
    /\ pc[p] \in {"emitError.cas", "emitError.doWrite", "emitError.OnError"}
    /\ call[p].via \in Setters

\* the close sequence runs for a setter only on a non-nil result, and a setter
\* that returns a non-nil result leaves the connection closed
SetterInv ==
    \A p \in Callers :
        /\ InSetterEmitError(p) => call[p].err # NilErr
        /\ pc[p] = "SetDeadline.ret" =>
               /\ call[p].via \in Setters
               /\ call[p].ret # NilErr => closed = 1

\* the steps of a setter: a nil result is returned with nothing changed, a
\* non-nil result is returned as it was, and on an open connection it sets the
\* flag, writes the one close frame and invokes OnError once, with that result
SetterStep ==
    \A p \in Callers :
        /\ (pc[p] = "idle" /\ pc'[p] = "SetDeadline.ret") =>
               /\ call'[p].ret = NilErr
               /\ closed' = closed /\ frames' = frames /\ events' = events
               /\ sockClosed' = sockClosed
        /\ (InSetterEmitError(p) /\ pc'[p] = "SetDeadline.ret") =>
               call'[p].ret = call[p].err /\ call'[p].via = call[p].via
        /\ (InSetterEmitError(p) /\ pc[p] = "emitError.cas" /\ closed = 0
              /\ pc'[p] # pc[p]) =>
               closed' = 1 /\ pc'[p] = "emitError.doWrite"
        /\ (InSetterEmitError(p) /\ pc[p] = "emitError.doWrite" /\ pc'[p] # pc[p]) =>
               /\ frames = <<>>
               /\ Len(frames') = 1 /\ frames'[1].opcode = "Close"
               /\ frames'[1].text = call[p].err
        /\ (InSetterEmitError(p) /\ pc[p] = "emitError.OnError" /\ pc'[p] # pc[p]) =>
               /\ events' = <<OnError(call[p].err)>>
               /\ Len(frames') = 1 /\ closed' = 1

\* C17: each deadline setter returns the socket call's result unchanged and
\* runs the close sequence if and only if the result is non-nil: on nil the
\* flag, the frames and the callbacks are untouched; on a failure on an open
\* connection the flag becomes 1, one close frame is written and OnError is
\* invoked once.
C17_Setters == []SetterInv /\ [][SetterStep]_vars

\* SetWriteDeadline failed on an open connection and is about to return the
\* failure, after one frame and one OnError
C17_Witness ==
    /\ pc[1] = "SetDeadline.ret"
    /\ call[1].via = "SetWriteDeadline"
    /\ call[1].ret = OtherErr("timeout")
    /\ closed = 1
    /\ Len(frames) = 1 /\ frames[1].text = OtherErr("timeout")
    /\ events = <<OnError(OtherErr("timeout"))>>

\* C18: in every interleaving of Listen with a failing deadline setter on
\* another goroutine, the close frame write and the callback of the path that
\* won the compare-and-swap happen before Listen's deferred Close: no setter
\* that won still has its write or its callback ahead once the socket is closed.
C18_Original ==
    \A p \in Callers :
        (InSetterEmitError(p) /\ pc[p] \in {"emitError.doWrite", "emitError.OnError"}) =>
            ~sockClosed

====
